---------------------------- MODULE Spec2Model ----------------------------
(***************************************************************************)
(* A model of the calculator of volsungdenichor/cpp_calculator:            *)
(* src/include/string_utils.hpp (text spans), src/src/calc.cpp (parser,    *)
(* expression tree, evaluation), src/tests/parser.cpp (the one-shot        *)
(* eval(text) of the tests) and src/src/main.cpp (the interactive session).*)
(*                                                                         *)
(* A text is a sequence of one-character strings.  A std::string_view is   *)
(* modelled by the sequence of the characters it views.  A double is       *)
(* modelled by an exact fraction [n, d] (d > 0, lowest terms), with d = 0  *)
(* for the IEEE specials: n = 1 is +inf, n = -1 is -inf, n = 0 is NaN.     *)
(* Rounding and the sign of zero are not modelled.                         *)
(***************************************************************************)
EXTENDS Integers, Sequences, FiniteSets, TLC

VARIABLES
    line,   \* the text handed to the parser (main.cpp:49, parser.cpp:8)
    pc,     \* where the caller stands: "read", "parsed", "done", ...
    view,   \* the string_view simplify_parens is applied to
    expr,   \* what calc::parse returned or threw
    ctx,    \* calc::Context::vars, a map from names to doubles
    res,    \* what expr->eval(ctx) returned or threw
    src     \* the expression the line was written from (none for raw text)

vars == <<line, pc, view, expr, ctx, res, src>>

(***************************************************************************)
(* Characters.                                                             *)
(***************************************************************************)
\* std::isspace in the C locale, without the vertical tab
Whitespace == {" ", "\t", "\n", "\f", "\r"}

DigitChars == <<"0", "1", "2", "3", "4", "5", "6", "7", "8", "9">>

Digits == {DigitChars[i] : i \in 1..10}

DigitVal(c) == (CHOOSE i \in 1..10 : DigitChars[i] = c) - 1

LowerChars == <<"a", "b", "c", "d", "e", "f", "g", "h", "i", "j", "k", "l", "m",
                "n", "o", "p", "q", "r", "s", "t", "u", "v", "w", "x", "y", "z">>

UpperChars == <<"A", "B", "C", "D", "E", "F", "G", "H", "I", "J", "K", "L", "M",
                "N", "O", "P", "Q", "R", "S", "T", "U", "V", "W", "X", "Y", "Z">>

\* std::isalpha in the C locale
Letters == {LowerChars[i] : i \in 1..26} \cup {UpperChars[i] : i \in 1..26}

\* tolower, as strtod's case-insensitive match of "inf" and "nan" needs it
ToLower(c) ==
    IF \E i \in 1..26 : UpperChars[i] = c
    THEN LowerChars[CHOOSE i \in 1..26 : UpperChars[i] = c]
    ELSE c

(***************************************************************************)
(* string_utils.hpp                                                        *)
(***************************************************************************)
Min(a, b) == IF a <= b THEN a ELSE b

drop(text, n) == SubSeq(text, Min(n, Len(text)) + 1, Len(text))

drop_last(text, n) == SubSeq(text, 1, Len(text) - Min(n, Len(text)))

RECURSIVE TrimFront(_)
TrimFront(text) ==
    IF text # <<>> /\ text[1] \in Whitespace THEN TrimFront(drop(text, 1)) ELSE text

RECURSIVE TrimBack(_)
TrimBack(text) ==
    IF text # <<>> /\ text[Len(text)] \in Whitespace
    THEN TrimBack(drop_last(text, 1))
    ELSE text

trim_whitespace(text) == TrimBack(TrimFront(text))

starts_with(haystack, needle) ==
    SubSeq(haystack, 1, Min(Len(haystack), Len(needle))) = needle

(***************************************************************************)
(* calc.cpp: parentheses                                                   *)
(***************************************************************************)
\* the counter of the parenthesis loops after the characters 1..i: "(" counts
\* +1 and ")" counts -1
paren_counter(text, i) ==
    Cardinality({j \in 1..i : text[j] = "("}) - Cardinality({j \in 1..i : text[j] = ")"})

\* valid_parens: false as soon as the counter goes negative, else whether it
\* ends at 0
valid_parens(text) ==
    /\ \A i \in 1..Len(text) : paren_counter(text, i) >= 0
    /\ paren_counter(text, Len(text)) = 0

\* simplify_parens with its loop entered once only: one layer at most
SimplifyOnce(text) ==
    LET t == trim_whitespace(text) IN
    IF t # <<>> /\ t[1] = "(" /\ t[Len(t)] = ")"
    THEN LET temp == trim_whitespace(drop_last(drop(t, 1), 1)) IN
         IF valid_parens(temp) THEN temp ELSE t
    ELSE t

RECURSIVE simplify_parens(_)
simplify_parens(text) ==
    LET t == trim_whitespace(text) IN
    IF t # <<>> /\ t[1] = "(" /\ t[Len(t)] = ")"
    THEN LET temp == trim_whitespace(drop_last(drop(t, 1), 1)) IN
         IF valid_parens(temp) THEN simplify_parens(temp) ELSE t
    ELSE t

(***************************************************************************)
(* Doubles.                                                                *)
(***************************************************************************)
Abs(x) == IF x < 0 THEN -x ELSE x

RECURSIVE Gcd(_, _)
Gcd(a, b) == IF b = 0 THEN a ELSE Gcd(b, a % b)

\* the fraction n/d (d # 0) in lowest terms with a positive denominator
Norm(n, d) ==
    LET g == Gcd(Abs(n), Abs(d))
        s == IF d < 0 THEN -1 ELSE 1
    IN  [n |-> s * (n \div g), d |-> Abs(d) \div g]

Num(k) == [n |-> k, d |-> 1]

PosInf == [n |-> 1, d |-> 0]

NegInf == [n |-> -1, d |-> 0]

NaN == [n |-> 0, d |-> 0]

IsNaN(a) == a.d = 0 /\ a.n = 0

IsInf(a) == a.d = 0 /\ a.n # 0

Sign(a) == IF a.n < 0 THEN -1 ELSE IF a.n > 0 THEN 1 ELSE 0

\* a result no fraction can hold (sin 1, sqrt 2, 2 ^ 0.5): kept as the
\* application that produced it
Transcendental(f, args) == [fn |-> f, of |-> args]

\* std::negate<>, unary_neg
DNeg(a) == [n |-> -a.n, d |-> a.d]

\* std::plus<>
DAdd(a, b) ==
    IF IsNaN(a) \/ IsNaN(b) THEN NaN
    ELSE IF IsInf(a) THEN (IF IsInf(b) /\ a.n # b.n THEN NaN ELSE a)
    ELSE IF IsInf(b) THEN b
    ELSE Norm(a.n * b.d + b.n * a.d, a.d * b.d)

\* std::minus<>
DSub(a, b) == DAdd(a, DNeg(b))

\* std::multiplies<>
DMul(a, b) ==
    IF IsNaN(a) \/ IsNaN(b) THEN NaN
    ELSE IF IsInf(a) \/ IsInf(b)
         THEN (IF Sign(a) * Sign(b) = 0 THEN NaN
               ELSE [n |-> Sign(a) * Sign(b), d |-> 0])
    ELSE Norm(a.n * b.n, a.d * b.d)

\* std::divides<>
DDiv(a, b) ==
    IF IsNaN(a) \/ IsNaN(b) THEN NaN
    ELSE IF IsInf(a)
         THEN (IF IsInf(b) THEN NaN
               ELSE [n |-> (IF Sign(b) < 0 THEN -a.n ELSE a.n), d |-> 0])
    ELSE IF IsInf(b) THEN Num(0)
    ELSE IF b.n = 0
         THEN (IF a.n = 0 THEN NaN ELSE [n |-> Sign(a), d |-> 0])
    ELSE Norm(a.n * b.d, a.d * b.n)

\* x multiplied by itself k times
RECURSIVE PowNat(_, _)
PowNat(x, k) == IF k = 0 THEN Num(1) ELSE DMul(x, PowNat(x, k - 1))

\* binary_pow, std::pow
DPow(x, y) ==
    IF y.d # 0 /\ y.n = 0 THEN Num(1)
    ELSE IF x = Num(1) THEN Num(1)
    ELSE IF IsNaN(x) \/ IsNaN(y) THEN NaN
    ELSE IF y.d = 1
         THEN (IF y.n > 0 THEN PowNat(x, y.n) ELSE DDiv(Num(1), PowNat(x, -y.n)))
    ELSE Transcendental("pow", <<x, y>>)

\* a < b on doubles
DLess(a, b) ==
    IF IsNaN(a) \/ IsNaN(b) THEN FALSE
    ELSE IF IsInf(a) \/ IsInf(b)
         THEN (IF IsInf(a) /\ IsInf(b) THEN a.n < b.n
               ELSE IF IsInf(a) THEN a.n < 0
               ELSE b.n > 0)
    ELSE a.n * b.d < b.n * a.d

\* a == b on doubles
DEq(a, b) == ~IsNaN(a) /\ ~IsNaN(b) /\ a = b

\* the conversion of a comparison's bool to the double a BinaryFunc returns
BoolToDouble(b) == IF b THEN Num(1) ELSE Num(0)

(***************************************************************************)
(* calc.cpp: parse_double, that is std::stod                               *)
(***************************************************************************)
\* DBL_MAX_10_EXP and the decimal exponent of DBL_MIN
DblMax10Exp == 308

DblMin10Exp == 308

\* the leading digits of DBL_MAX = 1.7976931348623157e308 and of
\* DBL_MIN = 2.2250738585072014e-308
DblMaxDigits == <<1, 7, 9, 7, 6, 9, 3, 1, 3, 4, 8, 6, 2, 3, 1, 5, 7>>

DblMinDigits == <<2, 2, 2, 5, 0, 7, 3, 8, 5, 8, 5, 0, 7, 2, 0, 1, 4>>

\* the first index from i on whose character is not in S
RECURSIVE ScanWhile(_, _, _)
ScanWhile(text, i, S) ==
    IF i <= Len(text) /\ text[i] \in S THEN ScanWhile(text, i + 1, S) ELSE i

\* the number a run of digit characters spells
RECURSIVE DigitsValue(_)
DigitsValue(ds) ==
    IF ds = <<>> THEN 0
    ELSE 10 * DigitsValue(SubSeq(ds, 1, Len(ds) - 1)) + DigitVal(ds[Len(ds)])

RECURSIVE StripLeadingZeros(_)
StripLeadingZeros(ds) ==
    IF ds # <<>> /\ ds[1] = "0" THEN StripLeadingZeros(Tail(ds)) ELSE ds

RECURSIVE Pow10(_)
Pow10(k) == IF k = 0 THEN 1 ELSE 10 * Pow10(k - 1)

\* whether the digits ds, read as d.ddd, exceed the digits ref read so
RECURSIVE DigitsGreater(_, _, _)
DigitsGreater(ds, ref, i) ==
    IF i > Len(ds) THEN FALSE
    ELSE LET r == IF i <= Len(ref) THEN ref[i] ELSE 0 IN
         IF DigitVal(ds[i]) > r THEN TRUE
         ELSE IF DigitVal(ds[i]) < r THEN FALSE
         ELSE DigitsGreater(ds, ref, i + 1)

RECURSIVE DigitsLess(_, _, _)
DigitsLess(ds, ref, i) ==
    IF i > Len(ref) THEN FALSE
    ELSE LET d == IF i <= Len(ds) THEN DigitVal(ds[i]) ELSE 0 IN
         IF d < ref[i] THEN TRUE
         ELSE IF d > ref[i] THEN FALSE
         ELSE DigitsLess(ds, ref, i + 1)

LowerText(text) == [i \in 1..Len(text) |-> ToLower(text[i])]

\* strtod's decimal form from index i on (after the sign): the digits, an
\* optional point, an optional exponent.  errno = ERANGE, which stod turns into
\* std::out_of_range, is raised past DBL_MAX and below DBL_MIN.
StodDecimal(text, i, sign) ==
    LET j  == ScanWhile(text, i, Digits)
        hasPoint == j <= Len(text) /\ text[j] = "."
        k  == IF hasPoint THEN ScanWhile(text, j + 1, Digits) ELSE j
        intDs  == SubSeq(text, i, j - 1)
        fracDs == IF hasPoint THEN SubSeq(text, j + 1, k - 1) ELSE <<>>
        hasE == k <= Len(text) /\ text[k] \in {"e", "E"}
        es == IF hasE /\ k + 1 <= Len(text) /\ text[k + 1] \in {"+", "-"}
              THEN k + 2 ELSE k + 1
        ee == IF hasE THEN ScanWhile(text, es, Digits) ELSE k
        hasExp == hasE /\ ee > es
        X == IF hasExp
             THEN (IF text[k + 1] = "-" THEN -1 ELSE 1)
                  * DigitsValue(SubSeq(text, es, ee - 1))
             ELSE 0
        size == IF hasExp THEN ee - 1 ELSE k - 1
        ds == StripLeadingZeros(intDs \o fracDs)
        S  == Len(ds) - 1 + X - Len(fracDs)
    IN  IF intDs = <<>> /\ fracDs = <<>> THEN [kind |-> "invalid_argument"]
        ELSE IF ds = <<>> THEN [kind |-> "ok", v |-> Num(0), size |-> size]
        ELSE IF \/ S > DblMax10Exp
                \/ S = DblMax10Exp /\ DigitsGreater(ds, DblMaxDigits, 1)
                \/ S < -DblMin10Exp
                \/ S = -DblMin10Exp /\ DigitsLess(ds, DblMinDigits, 1)
             THEN [kind |-> "out_of_range"]
        ELSE LET M == DigitsValue(ds)
                 p == X - Len(fracDs)
             IN  [kind |-> "ok", size |-> size,
                  v |-> IF p >= 0 THEN Num(sign * M * Pow10(p))
                        ELSE Norm(sign * M, Pow10(-p))]

\* std::stod(text, &size): leading white space, a sign, then "inf",
\* "infinity" or "nan" in any case, or a decimal number.  The hexadecimal
\* form and nan(chars) need "x" after "0" and "(" after "nan".
Stod(text) ==
    LET i0 == ScanWhile(text, 1, Whitespace)
        hasSign == i0 <= Len(text) /\ text[i0] \in {"+", "-"}
        sign == IF hasSign /\ text[i0] = "-" THEN -1 ELSE 1
        i == IF hasSign THEN i0 + 1 ELSE i0
        low == LowerText(SubSeq(text, i, Len(text)))
    IN  IF starts_with(low, <<"i", "n", "f", "i", "n", "i", "t", "y">>) /\ Len(low) >= 8
        THEN [kind |-> "ok", v |-> [n |-> sign, d |-> 0], size |-> i + 7]
        ELSE IF starts_with(low, <<"i", "n", "f">>) /\ Len(low) >= 3
        THEN [kind |-> "ok", v |-> [n |-> sign, d |-> 0], size |-> i + 2]
        ELSE IF starts_with(low, <<"n", "a", "n">>) /\ Len(low) >= 3
        THEN [kind |-> "ok", v |-> NaN, size |-> i + 2]
        ELSE StodDecimal(text, i, sign)

\* parse_double: the value when std::stod read the whole text, std::nullopt
\* when it read less or threw std::invalid_argument; std::out_of_range is
\* not caught and leaves the function
parse_double(text) ==
    LET r == Stod(text) IN
    IF r.kind = "out_of_range" THEN [kind |-> "Throw", what |-> "stod"]
    ELSE IF r.kind = "ok" /\ r.size = Len(text)
         THEN [kind |-> "Value", v |-> r.v]
    ELSE [kind |-> "Null"]

(***************************************************************************)
(* calc.cpp: the registry built by Parser::Impl::Impl and Parser::Parser   *)
(***************************************************************************)
\* std::numeric_limits<int>::max()
IntMax == 2147483647

\* the registry with "^" above "*" and "/" (50 in place of 30)
binary_op_info_list_pow_highest ==
    << [symbol |-> <<"=", "=">>, value |-> 10, right_associative |-> FALSE, func |-> "equal_to"],
       [symbol |-> <<"!", "=">>, value |-> 10, right_associative |-> FALSE, func |-> "not_equal_to"],
       [symbol |-> <<"<">>,      value |-> 10, right_associative |-> FALSE, func |-> "less"],
       [symbol |-> <<"<", "=">>, value |-> 10, right_associative |-> FALSE, func |-> "less_equal"],
       [symbol |-> <<">">>,      value |-> 10, right_associative |-> FALSE, func |-> "greater"],
       [symbol |-> <<">", "=">>, value |-> 10, right_associative |-> FALSE, func |-> "greater_equal"],
       [symbol |-> <<"+">>,      value |-> 20, right_associative |-> FALSE, func |-> "plus"],
       [symbol |-> <<"-">>,      value |-> 20, right_associative |-> FALSE, func |-> "minus"],
       [symbol |-> <<"*">>,      value |-> 40, right_associative |-> FALSE, func |-> "multiplies"],
       [symbol |-> <<"/">>,      value |-> 40, right_associative |-> FALSE, func |-> "divides"],
       [symbol |-> <<"^">>,      value |-> 50, right_associative |-> TRUE,  func |-> "binary_pow"],
       [symbol |-> <<"=">>,      value |-> 5,  right_associative |-> FALSE, func |-> ""] >>

\* binary_op_info_list in push_back order: symbol, Precedence{value,
\* right_associative}, func ("" is the empty std::function of "=")
binary_op_info_list ==
    << [symbol |-> <<"=", "=">>, value |-> 10, right_associative |-> FALSE, func |-> "equal_to"],
       [symbol |-> <<"!", "=">>, value |-> 10, right_associative |-> FALSE, func |-> "not_equal_to"],
       [symbol |-> <<"<">>,      value |-> 10, right_associative |-> FALSE, func |-> "less"],
       [symbol |-> <<"<", "=">>, value |-> 10, right_associative |-> FALSE, func |-> "less_equal"],
       [symbol |-> <<">">>,      value |-> 10, right_associative |-> FALSE, func |-> "greater"],
       [symbol |-> <<">", "=">>, value |-> 10, right_associative |-> FALSE, func |-> "greater_equal"],
       [symbol |-> <<"+">>,      value |-> 20, right_associative |-> FALSE, func |-> "plus"],
       [symbol |-> <<"-">>,      value |-> 20, right_associative |-> FALSE, func |-> "minus"],
       [symbol |-> <<"*">>,      value |-> 40, right_associative |-> FALSE, func |-> "multiplies"],
       [symbol |-> <<"/">>,      value |-> 40, right_associative |-> FALSE, func |-> "divides"],
       [symbol |-> <<"^">>,      value |-> 30, right_associative |-> TRUE,  func |-> "binary_pow"],
       [symbol |-> <<"=">>,      value |-> 5,  right_associative |-> FALSE, func |-> ""] >>

\* unary_op_info_list in push_back order
unary_op_info_list ==
    << [symbol |-> <<"+">>, func |-> "unary_pos"],
       [symbol |-> <<"-">>, func |-> "negate"] >>

\* function_info_list in register_function order
function_info_list ==
    << [name |-> <<"s", "u", "m">>,      func |-> "func_sum"],
       [name |-> <<"s", "i", "n">>,      func |-> "func_sin"],
       [name |-> <<"c", "o", "s">>,      func |-> "func_cos"],
       [name |-> <<"m", "a", "x">>,      func |-> "func_max"],
       [name |-> <<"m", "i", "n">>,      func |-> "func_min"],
       [name |-> <<"s", "q", "r", "t">>, func |-> "func_sqrt"] >>

is_assignment(op_info) == op_info.func = ""

\* Precedence::operator< with <= on both branches: associativity ignored
PrecedenceLessNoAssoc(precedence, value) == precedence.value <= value

\* Precedence::operator<(const Precedence&, int)
PrecedenceLess(precedence, value) ==
    \/ precedence.value <= value /\ ~precedence.right_associative
    \/ precedence.value < value /\ precedence.right_associative

is_valid_variable_name(text) ==
    text # <<>> /\ \A i \in 1..Len(text) : text[i] \in Letters \/ text[i] = "_"

(***************************************************************************)
(* calc.cpp: Parser::Impl::find_binary_oper                                *)
(***************************************************************************)
\* the scan without the parenthesis counter: operators inside parentheses
\* are candidates too
OperMatchesAnyDepth(text) ==
    {m \in (2..Len(text)) \X (1..Len(binary_op_info_list)) :
        starts_with(SubSeq(text, m[1], Len(text)), binary_op_info_list[m[2]].symbol)}

\* the places where the two loops of find_binary_oper reach the test of
\* op_info.precedence: position i (not the first, counter 0 once the
\* character at i is counted) and entry k whose symbol the rest starts with
OperMatches(text) ==
    {m \in (2..Len(text)) \X (1..Len(binary_op_info_list)) :
        /\ paren_counter(text, m[1]) = 0
        /\ starts_with(SubSeq(text, m[1], Len(text)), binary_op_info_list[m[2]].symbol)}

\* the order the loops visit them in: by position, then by entry
VisitedBefore(m1, m2) == m1[1] < m2[1] \/ (m1[1] = m2[1] /\ m1[2] < m2[2])

\* the loops over the matches not yet visited; st = [min_precedence, res]
\* with res = [has, it, op], has = FALSE for the empty optional
RECURSIVE OperLoop(_, _)
OperLoop(matches, st) ==
    IF matches = {} THEN st.res
    ELSE LET m == CHOOSE x \in matches : \A y \in matches \ {x} : VisitedBefore(x, y)
             op_info == binary_op_info_list[m[2]]
         IN  IF PrecedenceLess(op_info, st.min_precedence)
             THEN OperLoop(matches \ {m},
                           [min_precedence |-> op_info.value,
                            res |-> [has |-> TRUE, it |-> m[1], op |-> m[2]]])
             ELSE OperLoop(matches \ {m}, st)

find_binary_oper(text) ==
    OperLoop(OperMatches(text), [min_precedence |-> IntMax, res |-> [has |-> FALSE]])

(***************************************************************************)
(* calc.cpp: Parser::Impl, the recursive descent.  A result is an          *)
(* expression node, Null (the nullptr of no match) or Throw (an exception  *)
(* leaving the parser).                                                    *)
(***************************************************************************)
Null == [kind |-> "Null"]

Throw(what) == [kind |-> "Throw", what |-> what]

IsThrow(r) == r.kind = "Throw"

IsNull(r) == r.kind = "Null"

IsExpr(r) == r.kind \notin {"Null", "Throw"}

\* the lookup lambda of parse_function: the index of the entry named name, 0
\* for nullptr
FindFunction(name) ==
    IF \E k \in 1..Len(function_info_list) : function_info_list[k].name = name
    THEN CHOOSE k \in 1..Len(function_info_list) :
            /\ function_info_list[k].name = name
            /\ \A j \in 1..(k - 1) : function_info_list[j].name # name
    ELSE 0

\* the lambda "next" without its counter: the first comma at any depth
NextCommaAnyDepth(text) ==
    LET commas == {i \in 1..Len(text) : text[i] = ","} IN
    IF commas = {} THEN Len(text) + 1
    ELSE CHOOSE i \in commas : \A j \in commas : i <= j

\* the lambda "next" of parse_function: the first comma with the counter at
\* 0, Len(text) + 1 for text.end()
NextComma(text) ==
    LET commas == {i \in 1..Len(text) : text[i] = "," /\ paren_counter(text, i) = 0} IN
    IF commas = {} THEN Len(text) + 1
    ELSE CHOOSE i \in commas : \A j \in commas : i <= j

\* std::find(text.begin(), text.end(), ch): Len(text) + 1 for text.end()
FindChar(text, ch) ==
    LET found == {i \in 1..Len(text) : text[i] = ch} IN
    IF found = {} THEN Len(text) + 1
    ELSE CHOOSE i \in found : \A j \in found : i <= j

parse_number(text) == parse_double(text)

parse_variable(text) ==
    IF is_valid_variable_name(text) THEN [kind |-> "Variable", name |-> text] ELSE Null

RECURSIVE parse_expr(_)
RECURSIVE parse_unary(_)
RECURSIVE UnaryLoop(_, _)
RECURSIVE parse_binary_or_assignment(_)
RECURSIVE parse_function(_)
RECURSIVE ArgLoop(_, _)

\* the loop of parse_unary from entry k of unary_op_info_list on
UnaryLoop(text, k) ==
    IF k > Len(unary_op_info_list) THEN Null
    ELSE LET op_info == unary_op_info_list[k] IN
         IF starts_with(text, op_info.symbol)
         THEN LET sub == parse_expr(SubSeq(text, Len(op_info.symbol) + 1, Len(text))) IN
              IF IsThrow(sub) THEN sub
              ELSE IF IsExpr(sub)
                   THEN [kind |-> "UnaryOp", info |-> op_info.symbol, sub |-> sub]
              ELSE UnaryLoop(text, k + 1)
         ELSE UnaryLoop(text, k + 1)

parse_unary(text) == UnaryLoop(text, 1)

parse_binary_or_assignment(text) ==
    LET oper_result == find_binary_oper(text) IN
    IF ~oper_result.has THEN Null
    ELSE LET it == oper_result.it
             op_info == binary_op_info_list[oper_result.op]
             rhs == parse_expr(SubSeq(text, it + Len(op_info.symbol), Len(text)))
             lhs_str == trim_whitespace(SubSeq(text, 1, it - 1))
         IN  IF IsThrow(rhs) THEN rhs
             ELSE IF IsNull(rhs) THEN Null
             ELSE IF is_valid_variable_name(lhs_str) /\ is_assignment(op_info)
                  THEN [kind |-> "Assignment", name |-> lhs_str, expr |-> rhs]
             ELSE LET lhs == parse_expr(lhs_str) IN
                  IF IsThrow(lhs) THEN lhs
                  ELSE IF IsExpr(lhs)
                       THEN [kind |-> "BinaryOp", info |-> op_info.symbol,
                             lhs |-> lhs, rhs |-> rhs]
                  ELSE Null

\* the while loop of parse_function: text is what is left of the argument
\* list, subs the arguments parsed so far (a nullptr is pushed like any other)
ArgLoop(text, subs) ==
    IF text = <<>> THEN [kind |-> "Subs", subs |-> subs]
    ELSE LET next == NextComma(text)
             sub == parse_expr(SubSeq(text, 1, next - 1))
         IN  IF IsThrow(sub) THEN sub
             ELSE ArgLoop(simplify_parens(drop(SubSeq(text, next, Len(text)), 1)),
                          Append(subs, sub))

parse_function(text) ==
    LET it == FindChar(text, "(") IN
    IF it > Len(text) \/ text[Len(text)] # ")" THEN Null
    ELSE LET name == trim_whitespace(SubSeq(text, 1, it - 1))
             info == FindFunction(name)
         IN  IF info = 0 THEN Null
             ELSE LET subs == ArgLoop(simplify_parens(SubSeq(text, it, Len(text))), <<>>) IN
                  IF IsThrow(subs) THEN subs
                  ELSE [kind |-> "Func", info |-> function_info_list[info].name,
                        subs |-> subs.subs]

parse_expr(text) ==
    IF ~valid_parens(text) THEN Throw("Invalid parens")
    ELSE LET t == simplify_parens(text)
             r1 == parse_number(t)
             r2 == parse_binary_or_assignment(t)
             r3 == parse_unary(t)
             r4 == parse_function(t)
             r5 == parse_variable(t)
         IN  IF ~IsNull(r1) THEN r1
             ELSE IF ~IsNull(r2) THEN r2
             ELSE IF ~IsNull(r3) THEN r3
             ELSE IF ~IsNull(r4) THEN r4
             ELSE r5

(***************************************************************************)
(* calc.cpp: the built-in functions                                        *)
(***************************************************************************)
UnaryFunc(func, x) ==
    CASE func = "unary_pos" -> x
      [] func = "negate"    -> DNeg(x)

BinaryFunc(func, x, y) ==
    CASE func = "equal_to"      -> BoolToDouble(DEq(x, y))
      [] func = "not_equal_to"  -> BoolToDouble(~DEq(x, y))
      [] func = "less"          -> BoolToDouble(DLess(x, y))
      [] func = "less_equal"    -> BoolToDouble(DLess(x, y) \/ DEq(x, y))
      [] func = "greater"       -> BoolToDouble(DLess(y, x))
      [] func = "greater_equal" -> BoolToDouble(DLess(y, x) \/ DEq(x, y))
      [] func = "plus"          -> DAdd(x, y)
      [] func = "minus"         -> DSub(x, y)
      [] func = "multiplies"    -> DMul(x, y)
      [] func = "divides"       -> DDiv(x, y)
      [] func = "binary_pow"    -> DPow(x, y)

\* std::accumulate(args.begin(), args.end(), 0.0)
RECURSIVE Accumulate(_, _)
Accumulate(args, init) ==
    IF args = <<>> THEN init ELSE Accumulate(Tail(args), DAdd(init, Head(args)))

\* std::max_element on a non-empty range: the first element no later one
\* exceeds
RECURSIVE MaxElement(_, _)
MaxElement(args, largest) ==
    IF args = <<>> THEN largest
    ELSE MaxElement(Tail(args), IF DLess(largest, Head(args)) THEN Head(args) ELSE largest)

\* std::min_element on a non-empty range
RECURSIVE MinElement(_, _)
MinElement(args, smallest) ==
    IF args = <<>> THEN smallest
    ELSE MinElement(Tail(args), IF DLess(Head(args), smallest) THEN Head(args) ELSE smallest)

IsSquare(k) == \E r \in 0..k : r * r = k

Root(k) == CHOOSE r \in 0..k : r * r = k

DSin(x) == IF x = Num(0) THEN Num(0) ELSE Transcendental("sin", <<x>>)

DCos(x) == IF x = Num(0) THEN Num(1) ELSE Transcendental("cos", <<x>>)

DSqrt(x) ==
    IF IsNaN(x) \/ x.n < 0 THEN NaN
    ELSE IF IsInf(x) THEN x
    ELSE IF IsSquare(x.n) /\ IsSquare(x.d) THEN [n |-> Root(x.n), d |-> Root(x.d)]
    ELSE Transcendental("sqrt", <<x>>)

\* what a call yields: a value, an exception (Throw), or undefined behaviour
Val(v) == [kind |-> "Val", v |-> v]

UB == [kind |-> "UB"]

\* args.at(0)
At0(args) == IF Len(args) >= 1 THEN Val(args[1]) ELSE Throw("out_of_range")

\* func_sum, func_sin, func_cos, func_max, func_min, func_sqrt; max and min
\* dereference args.end() on an empty argument list
Function(func, args) ==
    CASE func = "func_sum"  -> Val(Accumulate(args, Num(0)))
      [] func = "func_sin"  -> IF Len(args) >= 1 THEN Val(DSin(args[1])) ELSE At0(args)
      [] func = "func_cos"  -> IF Len(args) >= 1 THEN Val(DCos(args[1])) ELSE At0(args)
      [] func = "func_sqrt" -> IF Len(args) >= 1 THEN Val(DSqrt(args[1])) ELSE At0(args)
      [] func = "func_max"  -> IF args = <<>> THEN UB ELSE Val(MaxElement(Tail(args), Head(args)))
      [] func = "func_min"  -> IF args = <<>> THEN UB ELSE Val(MinElement(Tail(args), Head(args)))

FuncOf(name) == function_info_list[FindFunction(name)].func

BinaryInfo(symbol) ==
    binary_op_info_list[CHOOSE k \in 1..Len(binary_op_info_list) :
                            binary_op_info_list[k].symbol = symbol]

UnaryInfo(symbol) ==
    unary_op_info_list[CHOOSE k \in 1..Len(unary_op_info_list) :
                           unary_op_info_list[k].symbol = symbol]

(***************************************************************************)
(* calc.cpp: Expr::eval.  The result is [out, ctx]: what the call yields   *)
(* and the context it leaves.  order is the order in which the build       *)
(* evaluates the two operands of info.func(lhs->eval(ctx), rhs->eval(ctx)),*)
(* which C++ leaves unspecified.  out = UB says that the evaluation ran    *)
(* into undefined behaviour: a call through a null ExprPtr, or *args.end().*)
(***************************************************************************)
\* ctx.vars.insert_or_assign(name, v)
insert_or_assign(c, name, v) ==
    IF name \in DOMAIN c THEN [c EXCEPT ![name] = v] ELSE c @@ (name :> v)

\* Assignment::eval once expr->eval(ctx) has returned r
AssignmentStore(name, r) ==
    LET c2 == insert_or_assign(r.ctx, name, r.out.v) IN
    [out |-> Val(c2[name]), ctx |-> c2]

\* Variable::eval
VariableEval(name, c) ==
    [out |-> IF name \in DOMAIN c THEN Val(c[name])
             ELSE [kind |-> "Throw", what |-> "undefined variable", name |-> name],
     ctx |-> c]

RECURSIVE eval(_, _, _)
RECURSIVE EvalArgs(_, _, _, _)

\* the std::transform of Func::eval over subs from the first one left
EvalArgs(subs, c, args, order) ==
    IF subs = <<>> THEN [out |-> [kind |-> "Args", args |-> args], ctx |-> c]
    ELSE LET r == eval(Head(subs), c, order) IN
         IF r.out.kind # "Val" THEN r
         ELSE EvalArgs(Tail(subs), r.ctx, Append(args, r.out.v), order)

eval(node, c, order) ==
    CASE node.kind = "Null" -> [out |-> UB, ctx |-> c]
      [] node.kind = "Value" -> [out |-> Val(node.v), ctx |-> c]
      [] node.kind = "Variable" -> VariableEval(node.name, c)
      [] node.kind = "UnaryOp" ->
            LET r == eval(node.sub, c, order) IN
            IF r.out.kind # "Val" THEN r
            ELSE [out |-> Val(UnaryFunc(UnaryInfo(node.info).func, r.out.v)), ctx |-> r.ctx]
      [] node.kind = "BinaryOp" ->
            LET first  == IF order = "lhs_first" THEN node.lhs ELSE node.rhs
                second == IF order = "lhs_first" THEN node.rhs ELSE node.lhs
                r1 == eval(first, c, order)
                r2 == eval(second, r1.ctx, order)
                l  == IF order = "lhs_first" THEN r1 ELSE r2
                r  == IF order = "lhs_first" THEN r2 ELSE r1
                func == BinaryInfo(node.info).func
            IN  IF r1.out.kind # "Val" THEN r1
                ELSE IF r2.out.kind # "Val" THEN r2
                ELSE IF func = "" THEN [out |-> Throw("bad_function_call"), ctx |-> r2.ctx]
                ELSE [out |-> Val(BinaryFunc(func, l.out.v, r.out.v)), ctx |-> r2.ctx]
      [] node.kind = "Func" ->
            LET r == EvalArgs(node.subs, c, <<>>, order) IN
            IF r.out.kind # "Args" THEN r
            ELSE [out |-> Function(FuncOf(node.info), r.out.args), ctx |-> r.ctx]
      [] node.kind = "Assignment" ->
            LET r == eval(node.expr, c, order) IN
            IF r.out.kind # "Val" THEN r ELSE AssignmentStore(node.name, r)

\* the two orders a build may evaluate a call's operands in
Orders == {"lhs_first", "rhs_first"}

\* what a build may make of undefined behaviour: the process dies, or the
\* call returns whatever double it read
Crash == [kind |-> "Crash"]

UBOutcomes == {Crash, Val(Num(0)), Val(NaN)}

(***************************************************************************)
(* The callers: calc::parse(text) and expr->eval(ctx), as the tests        *)
(* (parser.cpp:6-11) and the session loop (main.cpp:72-89) call them.      *)
(***************************************************************************)
NoSrc == [kind |-> "none"]

\* calc::parse(line), Parser::operator()
Parse ==
    /\ pc = "read"
    /\ expr' = parse_expr(line)
    /\ pc' = IF IsThrow(expr') THEN "parse_error"
             ELSE IF IsNull(expr') THEN "no_match" ELSE "parsed"
    /\ UNCHANGED <<line, view, ctx, res, src>>

\* expr->eval(ctx) on a tree parse returned
Eval ==
    /\ pc = "parsed"
    /\ \E order \in Orders :
          LET r == eval(expr, ctx, order) IN
          /\ res' \in (IF r.out = UB THEN UBOutcomes ELSE {r.out})
          /\ ctx' = r.ctx
          /\ pc' = IF res'.kind = "Val" THEN "done" ELSE "eval_error"
    /\ UNCHANGED <<line, view, expr, src>>

\* simplify_parens applied to the view, and applied again to its result
Simplify ==
    /\ pc \in {"read", "simplified"}
    /\ view' = simplify_parens(view)
    /\ pc' = IF pc = "read" THEN "simplified" ELSE "resimplified"
    /\ UNCHANGED <<line, expr, ctx, res, src>>

EmptyCtx == <<>>

NoRes == [kind |-> "none"]

(***************************************************************************)
(* SpecText: every text over a small alphabet, and some longer ones.       *)
(***************************************************************************)
MaxLen == 5

Alphabet == {"(", ")", " ", "a", "+"}

ExtraTexts ==
    { <<"(", "a", ")", "+", "(", "b", ")">>,
      <<"(", "(", " ", "a", " ", ")", ")">>,
      <<"(", ")", "(">>,
      <<"1", "e", "9", "9", "9">>,
      <<"1", "e", "-", "9", "9", "9">>,
      <<"1", "e", "3">>,
      <<"1", "+", "1", "e", "9", "9", "9">> }

Texts == UNION {[1..n -> Alphabet] : n \in 0..MaxLen} \cup ExtraTexts

InitText ==
    /\ line \in Texts
    /\ view = line
    /\ pc = "read"
    /\ expr = Null
    /\ ctx = EmptyCtx
    /\ res = NoRes
    /\ src = NoSrc

NextText == Simplify \/ Parse \/ Eval

SpecText == InitText /\ [][NextText]_vars

\* parse(line) has returned or raised
Parsed == pc \in {"parsed", "no_match", "parse_error", "done", "eval_error"}

\* C6: parse raises exactly when the parentheses of the whole input are
\* invalid, and what it raises then is the malformed-parentheses failure; an
\* input with valid parentheses gives a tree or no match, and the empty and
\* the whitespace-only inputs give no match
C6_OnlyInvalidParensRaise ==
    Parsed =>
        /\ IsThrow(expr) <=> ~valid_parens(line)
        /\ IsThrow(expr) => expr = Throw("Invalid parens")
        /\ trim_whitespace(line) = <<>> => IsNull(expr)

\* 1e999 has no parentheses at all, and parse has raised what std::stod raised
C6_Witness ==
    /\ pc = "parse_error"
    /\ line = <<"1", "e", "9", "9", "9">>
    /\ expr = Throw("stod")

\* view comes from text by trimming and by stripping outer layers whose
\* interior has valid parentheses, and by nothing else
RECURSIVE PeelsTo(_, _)
PeelsTo(text, result) ==
    LET t == trim_whitespace(text) IN
    \/ result = t
    \/ /\ Len(t) >= 2
       /\ t[1] = "("
       /\ t[Len(t)] = ")"
       /\ valid_parens(SubSeq(t, 2, Len(t) - 1))
       /\ PeelsTo(SubSeq(t, 2, Len(t) - 1), result)

\* C9: simplify_parens applied twice gives what it gives applied once, for
\* every text (empty, blank and unbalanced ones too); it strips an outer layer
\* only when the interior has valid parentheses, so (a)+(b) comes back whole
C9_SimplifyIdempotent ==
    /\ pc = "resimplified" => view = simplify_parens(line)
    /\ pc = "simplified" => PeelsTo(line, view)
    /\ (pc = "simplified" /\ line = <<"(", "a", ")", "+", "(", "b", ")">>) => view = line

\* two layers and the blanks inside them have been stripped, and the second
\* application has changed nothing
C9_Witness ==
    /\ pc = "resimplified"
    /\ line = <<"(", "(", " ", "a", " ", ")", ")">>
    /\ view = <<"a">>

(***************************************************************************)
(* The expressions the arithmetic claims speak of, written out from the    *)
(* textbook grammar together with the tree and the value the textbook      *)
(* gives them:                                                             *)
(*     Expr ::= Expr AddOp Term | Term          AddOp is + or -            *)
(*     Term ::= Term MulOp Factor | Factor      MulOp is * or /            *)
(*     Factor ::= literal | ( Expr )                                       *)
(***************************************************************************)
\* what the symbol of a binary operator means in arithmetic
RefApply(op, a, b) ==
    CASE op = "+" -> DAdd(a, b)
      [] op = "-" -> DSub(a, b)
      [] op = "*" -> DMul(a, b)
      [] op = "/" -> DDiv(a, b)
      [] op = "^" -> DPow(a, b)

Lit(t, val) == [text |-> t, v |-> val, tree |-> [kind |-> "Value", v |-> val]]

Paren(e) == [text |-> <<"(">> \o e.text \o <<")">>, v |-> e.v, tree |-> e.tree]

\* l op r, with sp written on both sides of the operator
Bin(op, l, r, sp) ==
    [text |-> l.text \o sp \o <<op>> \o sp \o r.text,
     v |-> RefApply(op, l.v, r.v),
     tree |-> [kind |-> "BinaryOp", info |-> <<op>>, lhs |-> l.tree, rhs |-> r.tree]]

\* unsigned decimal literals: an integer and one with a decimal point
ArithLits == {Lit(<<"3">>, Num(3)), Lit(<<"1", ".", "5">>, Norm(3, 2))}

\* the largest number of binary operators in a generated expression
MaxOps == 2

\* the expressions with exactly n operators, from those with fewer (lower[i + 1]
\* holds those with i): factor, term and expr are the three nonterminals
GenLevel(n, sp, lower) ==
    LET products ==
            UNION {{Bin(op, l, r, sp) : op \in {"*", "/"},
                                        l \in lower[i + 1].term,
                                        r \in lower[n - i].factor} : i \in 0..(n - 1)}
        sums ==
            UNION {{Bin(op, l, r, sp) : op \in {"+", "-"},
                                        l \in lower[i + 1].expr,
                                        r \in lower[n - i].term} : i \in 0..(n - 1)}
        factor == IF n = 0 THEN ArithLits ELSE {Paren(e) : e \in products \cup sums}
    IN  [factor |-> factor,
         term |-> factor \cup products,
         expr |-> factor \cup products \cup sums]

\* the levels 0..n
RECURSIVE GenLevels(_, _)
GenLevels(n, sp) ==
    IF n = 0 THEN <<GenLevel(0, sp, <<>>)>>
    ELSE LET lower == GenLevels(n - 1, sp) IN Append(lower, GenLevel(n, sp, lower))

\* (2 + 3) * (3 - 1) - 1 of the tests
TestPrecedence ==
    LET two == Lit(<<"2">>, Num(2))
        three == Lit(<<"3">>, Num(3))
        one == Lit(<<"1">>, Num(1))
        sp == <<" ">>
    IN  Bin("-", Bin("*", Paren(Bin("+", two, three, sp)),
                          Paren(Bin("-", three, one, sp)), sp), one, sp)

\* the spacings the expressions are written with: none, or one blank on both
\* sides of every operator
Spacings == {<<>>, <<" ">>}

\* the expressions with at most MaxOps operators (one state per way of building
\* the topmost operator from operands with fewer operators), and the test's
InitArith ==
    /\ \/ src = TestPrecedence
       \/ \E sp \in Spacings : src \in ArithLits
       \/ \E sp \in Spacings, n \in 1..MaxOps, i \in 0..(MaxOps - 1), paren \in BOOLEAN :
             /\ i < n
             /\ LET lower == GenLevels(n - 1, sp)
                IN  \/ \E op \in {"*", "/"}, l \in lower[i + 1].term, r \in lower[n - i].factor :
                          src = IF paren THEN Paren(Bin(op, l, r, sp)) ELSE Bin(op, l, r, sp)
                    \/ \E op \in {"+", "-"}, l \in lower[i + 1].expr, r \in lower[n - i].term :
                          src = IF paren THEN Paren(Bin(op, l, r, sp)) ELSE Bin(op, l, r, sp)
    /\ line = src.text
    /\ view = line
    /\ pc = "read"
    /\ expr = Null
    /\ ctx = EmptyCtx
    /\ res = NoRes

NextArith == Parse \/ Eval

SpecArith == InitArith /\ [][NextArith]_vars

\* C1: an expression of literals, + - * / and parentheses parses to the
\* textbook tree (a tree, never no match or an exception; * and / below + and
\* -; a parenthesised part kept whole) and evaluates to the textbook value
C1_ArithmeticValue ==
    /\ pc # "read" => expr = src.tree
    /\ pc \notin {"read", "parsed"} => pc = "done" /\ res = Val(src.v)

\* an expression with a parenthesised sum under a product has been evaluated
C1_Witness ==
    /\ pc = "done"
    /\ src = TestPrecedence
    /\ res = Val(Num(9))

(***************************************************************************)
(* SpecOper: two operators in a row, a unary operator at the start and     *)
(* after a binary operator, and the comparisons, over a few literals.      *)
(***************************************************************************)
\* -e and +e
Neg(e) ==
    [text |-> <<"-">> \o e.text, v |-> DNeg(e.v),
     tree |-> [kind |-> "UnaryOp", info |-> <<"-">>, sub |-> e.tree]]

Pos(e) ==
    [text |-> <<"+">> \o e.text, v |-> e.v,
     tree |-> [kind |-> "UnaryOp", info |-> <<"+">>, sub |-> e.tree]]

\* the context the operator expressions are evaluated in: x is bound
XCtx == <<"x">> :> Norm(3, 2)

Var(name) == [text |-> name, v |-> XCtx[name], tree |-> [kind |-> "Variable", name |-> name]]

OperLits == {Lit(<<"0">>, Num(0)), Lit(<<"1">>, Num(1)), Lit(<<"2">>, Num(2))}

\* a op1 b op2 c for these pairs <<op1, op2>>
OperPairs ==
    { <<"*", "^">>, <<"^", "*">>, <<"/", "^">>, <<"^", "/">>,
      <<"-", "-">>, <<"/", "*">>, <<"^", "^">>, <<"^", "-">>, <<"-", "^">> }

Tern(op1, op2, a, b, c, sp) ==
    [form |-> "tern", op1 |-> op1, op2 |-> op2, a |-> a, b |-> b, c |-> c, sp |-> sp]

\* a op1 b op2 c read as (a op1 b) op2 c, and read as a op1 (b op2 c): one
\* text, two trees
GroupLeft(s) == Bin(s.op2, Bin(s.op1, s.a, s.b, s.sp), s.c, s.sp)

GroupRight(s) == Bin(s.op1, s.a, Bin(s.op2, s.b, s.c, s.sp), s.sp)

\* 2 * 10 ^ 3 of the tests, and 2 ^ 3 - 1, 1 - 2 ^ 3 and 2 ^ 3 ^ 2
TestPower ==
    Tern("*", "^", Lit(<<"2">>, Num(2)), Lit(<<"1", "0">>, Num(10)), Lit(<<"3">>, Num(3)), <<" ">>)

PowerMinus ==
    Tern("^", "-", Lit(<<"2">>, Num(2)), Lit(<<"3">>, Num(3)), Lit(<<"1">>, Num(1)), <<" ">>)

MinusPower ==
    Tern("-", "^", Lit(<<"1">>, Num(1)), Lit(<<"2">>, Num(2)), Lit(<<"3">>, Num(3)), <<" ">>)

PowerPower ==
    Tern("^", "^", Lit(<<"2">>, Num(2)), Lit(<<"3">>, Num(3)), Lit(<<"2">>, Num(2)), <<" ">>)

TernSrcs ==
    {Tern(p[1], p[2], a, b, c, sp) :
        p \in OperPairs, a \in OperLits, b \in OperLits, c \in OperLits, sp \in Spacings}
    \cup {TestPower, PowerMinus, MinusPower, PowerPower}

\* -(a + b), +(a + b), -x, a * -b and a - -b with what they mean
UnarySrcs ==
    UNION {{ [form |-> "unary", place |-> "start", e |-> Neg(Paren(Bin("+", a, b, sp)))],
             [form |-> "unary", place |-> "start", e |-> Pos(Paren(Bin("+", a, b, sp)))],
             [form |-> "unary", place |-> "start", e |-> Neg(Var(<<"x">>))],
             [form |-> "unary", place |-> "operand", e |-> Bin("*", a, Neg(b), sp)],
             [form |-> "unary", place |-> "operand", e |-> Bin("-", a, Neg(b), sp)] } :
           a \in OperLits \cup {Lit(<<"3">>, Num(3))}, b \in OperLits \cup {Lit(<<"3">>, Num(3))},
           sp \in Spacings}

\* the six comparison symbols with the relation each one names
Comparisons == {<<"=", "=">>, <<"!", "=">>, <<"<">>, <<"<", "=">>, <<">">>, <<">", "=">>}

Relation(op, a, b) ==
    CASE op = <<"=", "=">> -> a = b
      [] op = <<"!", "=">> -> a # b
      [] op = <<"<">>      -> a.n * b.d < b.n * a.d
      [] op = <<"<", "=">> -> a.n * b.d <= b.n * a.d
      [] op = <<">">>      -> a.n * b.d > b.n * a.d
      [] op = <<">", "=">> -> a.n * b.d >= b.n * a.d

CmpSrcs ==
    {[form |-> "cmp", op |-> op, a |-> a, b |-> b, sp |-> sp] :
        op \in Comparisons, a \in OperLits, b \in OperLits, sp \in Spacings}

OperText(s) ==
    CASE s.form = "tern"  -> GroupLeft(s).text
      [] s.form = "unary" -> s.e.text
      [] s.form = "cmp"   -> s.a.text \o s.sp \o s.op \o s.sp \o s.b.text

InitOper ==
    /\ src \in TernSrcs \cup UnarySrcs \cup CmpSrcs
    /\ line = OperText(src)
    /\ view = line
    /\ pc = "read"
    /\ expr = Null
    /\ ctx = XCtx
    /\ res = NoRes

NextOper == Parse \/ Eval

SpecOper == InitOper /\ [][NextOper]_vars

\* parse has given the tree t and, once evaluated, the value t.v
GivesTree(t) ==
    /\ pc # "read" => expr = t.tree
    /\ pc \notin {"read", "parsed"} => pc = "done" /\ res = Val(t.v)

\* parse has given some tree, whose value is v
GivesValue(v) ==
    /\ pc # "read" => pc \in {"parsed", "done"}
    /\ pc \notin {"read", "parsed"} => pc = "done" /\ res = Val(v)

IsTern(op1, op2) == src.form = "tern" /\ src.op1 = op1 /\ src.op2 = op2

\* C2 as the code has it: "^" binds looser than "*" and "/", so a * b ^ c is
\* (a * b) ^ c and a ^ b * c is a ^ (b * c), the split made at the "^"; the
\* test's 2 * 10 ^ 3 is 8000
C2_PowerBelowProduct ==
    /\ (IsTern("*", "^") \/ IsTern("/", "^")) => GivesTree(GroupLeft(src))
    /\ (IsTern("^", "*") \/ IsTern("^", "/")) => GivesTree(GroupRight(src))
    /\ (src = TestPower /\ pc = "done") => res = Val(Num(8000))

\* 2 * 10 ^ 3 has been evaluated: to 8000
C2_Witness ==
    /\ src = TestPower
    /\ pc = "done"
    /\ res = Val(Num(8000))

\* C2 as the claim has it: "^" binds tighter than "*" and "/", so a * b ^ c
\* is a * (b ^ c) and a ^ b * c is (a ^ b) * c, the split made at the "*"
C2_PowerAboveProduct ==
    /\ (IsTern("*", "^") \/ IsTern("/", "^")) => GivesTree(GroupRight(src))
    /\ (IsTern("^", "*") \/ IsTern("^", "/")) => GivesTree(GroupLeft(src))

\* C3: a - b - c is (a - b) - c and a / b * c is (a / b) * c; a ^ b ^ c is
\* a ^ (b ^ c); with "^" and "-" mixed the split is the textbook's, at the
\* "-": 2 ^ 3 - 1 is 7 and 1 - 2 ^ 3 is -7
C3_Associativity ==
    /\ (IsTern("-", "-") \/ IsTern("/", "*")) => GivesTree(GroupLeft(src))
    /\ IsTern("^", "^") => GivesTree(GroupRight(src))
    /\ IsTern("^", "-") => GivesTree(GroupLeft(src))
    /\ IsTern("-", "^") => GivesTree(GroupRight(src))
    /\ (src = PowerMinus /\ pc = "done") => res = Val(Num(7))
    /\ (src = MinusPower /\ pc = "done") => res = Val(Num(-7))

\* 2 ^ 3 ^ 2 has been evaluated: to 2 ^ 9, not to 8 ^ 2
C3_Witness ==
    /\ src = PowerPower
    /\ pc = "done"
    /\ res = Val(Num(512))

\* C4: an expression with a unary + or - parses to a tree and evaluates to
\* what it means, with the unary operator at the start (-(1 + 3) is -4,
\* +(1 + 3) is 4, -x is the negation of x) and with it as the operand to the
\* right of a binary operator (2 * -3 is -6, 2 - -3 is 5)
C4_UnaryAnywhere ==
    src.form = "unary" => GivesValue(src.e.v)

\* 2 * -3 has been parsed: to no match
C4_Witness ==
    /\ src.form = "unary"
    /\ line = <<"2", " ", "*", " ", "-", "3">>
    /\ pc = "no_match"

\* C5: a op b for each of the six comparison symbols parses to the binary
\* application of that very symbol (the longer one where a shorter one
\* matches too) and evaluates to 1 when the relation holds, else to 0
C5_Comparisons ==
    src.form = "cmp" =>
        GivesTree([v |-> BoolToDouble(Relation(src.op, src.a.v, src.b.v)),
                   tree |-> [kind |-> "BinaryOp", info |-> src.op,
                             lhs |-> src.a.tree, rhs |-> src.b.tree]])

\* 1 <= 2 has been parsed: to no match
C5_Witness ==
    /\ src.form = "cmp"
    /\ line = <<"1", " ", "<", "=", " ", "2">>
    /\ pc = "no_match"

(***************************************************************************)
(* SpecFunc: calls of the six built-in functions with up to MaxArgs        *)
(* arguments, each argument an expression of its own.                      *)
(***************************************************************************)
\* the largest number of arguments in a generated call
MaxArgs == 2

\* the arguments of a call, a comma and sp between them
RECURSIVE JoinArgs(_, _)
JoinArgs(args, sp) ==
    IF args = <<>> THEN <<>>
    ELSE IF Len(args) = 1 THEN args[1].text
    ELSE args[1].text \o <<",">> \o sp \o JoinArgs(Tail(args), sp)

\* name(args), a call of the function name; v is left to the caller
Call(name, args, sp) ==
    [name |-> name,
     text |-> name \o <<"(">> \o JoinArgs(args, sp) \o <<")">>,
     vals |-> [i \in 1..Len(args) |-> args[i].v],
     tree |-> [kind |-> "Func", info |-> name,
               subs |-> [i \in 1..Len(args) |-> args[i].tree]]]

\* 10 - 2 * 4.5, which is 1
ArgDifference ==
    Bin("-", Lit(<<"1", "0">>, Num(10)),
             Bin("*", Lit(<<"2">>, Num(2)), Lit(<<"4", ".", "5">>, Norm(9, 2)), <<" ">>), <<" ">>)

\* -(7 - 10), which is 3
ArgNegated ==
    Neg(Paren(Bin("-", Lit(<<"7">>, Num(7)), Lit(<<"1", "0">>, Num(10)), <<" ">>)))

\* max(2, 4), which is 4: an argument with a comma of its own
ArgCall ==
    LET call == Call(<<"m", "a", "x">>, <<Lit(<<"2">>, Num(2)), Lit(<<"4">>, Num(4))>>, <<" ">>)
    IN  [text |-> call.text, v |-> Num(4), tree |-> call.tree]

ArgExprs ==
    {Lit(<<"2">>, Num(2)), Lit(<<"4">>, Num(4)), ArgDifference, ArgNegated, ArgCall}

FuncNames == {function_info_list[k].name : k \in 1..Len(function_info_list)}

\* the example min(2, 4, 10 - 2 * 4.5, -(7 - 10))
ExampleMin ==
    Call(<<"m", "i", "n">>,
         <<Lit(<<"2">>, Num(2)), Lit(<<"4">>, Num(4)), ArgDifference, ArgNegated>>, <<" ">>)

Calls ==
    {Call(name, args, sp) :
        name \in FuncNames, args \in UNION {[1..n -> ArgExprs] : n \in 0..MaxArgs},
        sp \in Spacings}
    \cup {ExampleMin}

InitFunc ==
    /\ src \in Calls
    /\ line = src.text
    /\ view = line
    /\ pc = "read"
    /\ expr = Null
    /\ ctx = EmptyCtx
    /\ res = NoRes

NextFunc == Parse \/ Eval

SpecFunc == InitFunc /\ [][NextFunc]_vars

\* the argument counts a function supports: sin, cos and sqrt one, sum, max
\* and min one or more
Supported(name, n) ==
    IF name \in {<<"s", "i", "n">>, <<"c", "o", "s">>, <<"s", "q", "r", "t">>}
    THEN n = 1
    ELSE n >= 1

\* what the function name makes of a supported number of values
Applied(name, vals) ==
    LET range == {vals[i] : i \in 1..Len(vals)} IN
    CASE name = <<"s", "u", "m">> -> Accumulate(vals, Num(0))
      [] name = <<"m", "a", "x">> -> CHOOSE v \in range : \A w \in range : ~DLess(v, w)
      [] name = <<"m", "i", "n">> -> CHOOSE v \in range : \A w \in range : ~DLess(w, v)
      [] name = <<"s", "i", "n">> -> DSin(vals[1])
      [] name = <<"c", "o", "s">> -> DCos(vals[1])
      [] name = <<"s", "q", "r", "t">> -> DSqrt(vals[1])

Evaluated == pc \in {"done", "eval_error"}

\* C8: the evaluation of a call fails exactly when the number of arguments is
\* unsupported (sin, cos, sqrt: any but one; sum, max, min: none), and with a
\* supported number it gives the function of the argument values
C8_ArityFailure ==
    Evaluated =>
        /\ pc = "eval_error" <=> ~Supported(src.name, Len(src.vals))
        /\ pc = "eval_error" => res.kind = "Throw"
        /\ pc = "done" => res = Val(Applied(src.name, src.vals))

\* sin(2, 4) has been evaluated: to sin 2
C8_Witness ==
    /\ line = <<"s", "i", "n", "(", "2", ",", " ", "4", ")">>
    /\ pc = "done"
    /\ res = Val(DSin(Num(2)))

\* the part of C10 that does not depend on the example: the arguments of a
\* call are the texts between its depth-0 commas, each parsed as an
\* expression of its own, in the order written, and with a supported number
\* of them the function is given their values
ArgumentsInOrder ==
    /\ pc # "read" => expr = src.tree
    /\ (Evaluated /\ Supported(src.name, Len(src.vals))) =>
            pc = "done" /\ res = Val(Applied(src.name, src.vals))

\* C10 as the code has it: ArgumentsInOrder, and
\* min(2, 4, 10 - 2 * 4.5, -(7 - 10)), the least of 2, 4, 1 and 3, is 1
C10_ArgumentsInOrder ==
    /\ ArgumentsInOrder
    /\ (src = ExampleMin /\ Evaluated) => res = Val(Num(1))

\* the example has been evaluated: to 1
C10_Witness ==
    /\ src = ExampleMin
    /\ pc = "done"
    /\ res = Val(Num(1))

\* C10 as the claim has it: ArgumentsInOrder, and the example is -1
C10_ExampleMinusOne ==
    /\ ArgumentsInOrder
    /\ (src = ExampleMin /\ Evaluated) => res = Val(Num(-1))

(***************************************************************************)
(* Spec: the session of main.cpp.  One context, pi bound in it; a line is  *)
(* read, parsed and evaluated, the result is stored as ans, and the next   *)
(* line is read.                                                           *)
(***************************************************************************)
\* std::asin(1.0) * 2.0
Pi == Transcendental("multiplies", <<Transcendental("asin", <<Num(1)>>), Num(2)>>)

InitialVars == <<"p", "i">> :> Pi

SessionNames == {<<"x">>, <<"y">>, <<"i", "n", "f">>}

\* the lines of a session: n = 5, n = 7, n and n + 1 for each name n
SessionLines ==
    UNION {{ [form |-> "assign", name |-> n, v |-> Num(5), text |-> n \o <<" ", "=", " ", "5">>],
             [form |-> "assign", name |-> n, v |-> Num(7), text |-> n \o <<" ", "=", " ", "7">>],
             [form |-> "read", name |-> n, text |-> n],
             [form |-> "read_plus_one", name |-> n, text |-> n \o <<" ", "+", " ", "1">>] } :
           n \in SessionNames}

Commands ==
    { [form |-> "command", text |-> <<"q", "u", "i", "t">>],
      [form |-> "command", text |-> <<"v", "a", "r", "s">>],
      [form |-> "command", text |-> <<"h", "i", "s", "t", "o", "r", "y">>] }

\* read_line and the dispatch on the line; src keeps what was entered and the
\* context it was entered in
read_line(entries) ==
    /\ pc = "prompt"
    /\ \E entered \in entries :
          /\ line' = entered.text
          /\ src' = [entered |-> entered, before |-> ctx]
    /\ pc' = IF line' = <<"q", "u", "i", "t">> THEN "quit"
             ELSE IF line' \in {<<"v", "a", "r", "s">>, <<"h", "i", "s", "t", "o", "r", "y">>}
                  THEN "prompt"
             ELSE "read"
    /\ view' = line'
    /\ expr' = Null
    /\ res' = NoRes
    /\ UNCHANGED ctx

ReadLine == read_line(SessionLines \cup Commands)

\* ctx.vars.insert_or_assign("ans", res), and back to the prompt
StoreAns ==
    /\ pc = "done"
    /\ ctx' = insert_or_assign(ctx, <<"a", "n", "s">>, res.v)
    /\ pc' = "prompt"
    /\ UNCHANGED <<line, view, expr, res, src>>

\* "cannot parse expression" or "exception: ..." is printed, and back to the
\* prompt
Report ==
    /\ pc \in {"no_match", "parse_error", "eval_error"}
    /\ res # Crash
    /\ pc' = "prompt"
    /\ UNCHANGED <<line, view, expr, ctx, res, src>>

Init ==
    /\ pc = "prompt"
    /\ line = <<>>
    /\ view = <<>>
    /\ expr = Null
    /\ ctx = InitialVars
    /\ res = NoRes
    /\ src = NoSrc

Next == ReadLine \/ Parse \/ Eval \/ StoreAns \/ Report

Spec == Init /\ [][Next]_vars

\* the context c with name bound to v and every other binding as it was
Rebound(c, name, v) == [n \in DOMAIN c \cup {name} |-> IF n = name THEN v ELSE c[n]]

UndefinedVariable(name) == [kind |-> "Throw", what |-> "undefined variable", name |-> name]

\* C7: in a session on one context, n = e binds n to the value of e, gives
\* that value and changes no other binding; an expression that mentions n
\* reads the value n is bound to (after x = 5, x + 1 is 6 and x is still 5);
\* a reference to a name with no binding fails with UndefinedVariable of that
\* name
C7_AssignmentRoundTrip ==
    (pc \notin {"prompt", "quit", "read"}) =>
        LET entered == src.entered
            n == entered.name
            before == src.before
        IN  /\ pc \in {"parsed", "done", "eval_error"}
            /\ (Evaluated /\ entered.form = "assign") =>
                    /\ pc = "done"
                    /\ res = Val(entered.v)
                    /\ ctx = Rebound(before, n, entered.v)
            /\ (Evaluated /\ entered.form = "read" /\ n \in DOMAIN before) =>
                    pc = "done" /\ res = Val(before[n]) /\ ctx = before
            /\ (Evaluated /\ entered.form = "read_plus_one" /\ n \in DOMAIN before) =>
                    pc = "done" /\ res = Val(DAdd(before[n], Num(1))) /\ ctx = before
            /\ (Evaluated /\ entered.form # "assign" /\ n \notin DOMAIN before) =>
                    pc = "eval_error" /\ res = UndefinedVariable(n) /\ ctx = before

\* inf = 5 was evaluated, and then inf + 1: to infinity
C7_Witness ==
    /\ pc = "done"
    /\ line = <<"i", "n", "f", " ", "+", " ", "1">>
    /\ <<"i", "n", "f">> \in DOMAIN ctx
    /\ ctx[<<"i", "n", "f">>] = Num(5)
    /\ res = Val(PosInf)

(***************************************************************************)
(* SpecTree: texts with a part that does not parse, or with "=" where no   *)
(* assignment can be made: calls with an empty argument, and a = b,        *)
(* a + b = c and a = b = c over literals and names.                        *)
(***************************************************************************)
\* what stands between the commas of a call: nothing, a literal, a name
TreeArgs == {[text |-> <<>>], [text |-> <<"1">>], [text |-> <<"y">>]}

TreeCalls ==
    {name \o <<"(">> \o JoinArgs(args, sp) \o <<")">> :
        name \in FuncNames, args \in UNION {[1..n -> TreeArgs] : n \in 1..MaxArgs},
        sp \in Spacings}

\* the operands on the two sides of "=" and "+"
TreeOperands == {<<"1">>, <<"5">>, <<"x">>, <<"y">>}

\* a = b, a + b = c and a = b = c
TreeChains ==
    UNION {{ a \o sp \o <<"=">> \o sp \o b,
             a \o sp \o <<"+">> \o sp \o b \o sp \o <<"=">> \o sp \o c,
             a \o sp \o <<"=">> \o sp \o b \o sp \o <<"=">> \o sp \o c } :
           a \in TreeOperands, b \in TreeOperands, c \in TreeOperands, sp \in Spacings}

InitTree ==
    /\ line \in TreeCalls \cup TreeChains
    /\ view = line
    /\ pc = "read"
    /\ expr = Null
    /\ ctx = XCtx
    /\ res = NoRes
    /\ src = NoSrc

NextTree == Parse \/ Eval

SpecTree == InitTree /\ [][NextTree]_vars

\* every child of the node is a parsed expression, fully formed itself, and
\* every binary application has a function to compute it
RECURSIVE FullyFormed(_)
FullyFormed(node) ==
    CASE node.kind \in {"Value", "Variable"} -> TRUE
      [] node.kind = "UnaryOp" -> IsExpr(node.sub) /\ FullyFormed(node.sub)
      [] node.kind = "BinaryOp" ->
            /\ ~is_assignment(BinaryInfo(node.info))
            /\ IsExpr(node.lhs) /\ FullyFormed(node.lhs)
            /\ IsExpr(node.rhs) /\ FullyFormed(node.rhs)
      [] node.kind = "Func" ->
            \A i \in 1..Len(node.subs) : IsExpr(node.subs[i]) /\ FullyFormed(node.subs[i])
      [] node.kind = "Assignment" -> IsExpr(node.expr) /\ FullyFormed(node.expr)
      [] OTHER -> FALSE

\* C11: a tree that parse returns is fully formed (no absent child, also for
\* an argument that does not parse as in sum(,1); no binary application of
\* the assignment marker, also for 1 + 2 = 3 and x = y = 5), so its eval fails
\* only with an undefined variable or with the failure of a missing argument
C11_FullyFormedTree ==
    /\ (Parsed /\ IsExpr(expr)) => FullyFormed(expr)
    /\ pc = "eval_error" =>
            res.kind = "Throw" /\ res.what \in {"undefined variable", "out_of_range"}

\* sum(,1) has been parsed: to a call whose first argument is absent
C11_Witness ==
    /\ line = <<"s", "u", "m", "(", ",", "1", ")">>
    /\ pc = "parsed"
    /\ expr.kind = "Func"
    /\ expr.subs[1] = Null

(***************************************************************************)
(* SpecNested: the session of main.cpp on lines with an assignment inside  *)
(* a larger expression, next to a name that is never bound.                *)
(***************************************************************************)
\* the names assigned to, the values assigned, and the name without a binding
NestedNames == {<<"x">>, <<"y">>}

NestedValues == {<<"1">>, <<"2">>}

Unbound == <<"z">>

\* (n = v)
Assign(n, v) == <<"(">> \o n \o <<" ", "=", " ">> \o v \o <<")">>

\* n = v; z; n = z; (n = v) + z and z + (n = v); sum(n = v, z) and
\* sum(z, n = v); m = (n = v) + z
NestedLines ==
    UNION {{ [form |-> "line", text |-> n \o <<" ", "=", " ">> \o v],
             [form |-> "line", text |-> Unbound],
             [form |-> "line", text |-> n \o <<" ", "=", " ">> \o Unbound],
             [form |-> "line", text |-> Assign(n, v) \o <<" ", "+", " ">> \o Unbound],
             [form |-> "line", text |-> Unbound \o <<" ", "+", " ">> \o Assign(n, v)],
             [form |-> "line",
              text |-> <<"s", "u", "m", "(">> \o n \o <<" ", "=", " ">> \o v
                       \o <<",", " ">> \o Unbound \o <<")">>],
             [form |-> "line",
              text |-> <<"s", "u", "m", "(">> \o Unbound \o <<",", " ">>
                       \o n \o <<" ", "=", " ">> \o v \o <<")">>],
             [form |-> "line",
              text |-> m \o <<" ", "=", " ">> \o Assign(n, v) \o <<" ", "+", " ">> \o Unbound] } :
           n \in NestedNames, m \in NestedNames, v \in NestedValues}

ReadNested == read_line(NestedLines \cup Commands)

NextNested == ReadNested \/ Parse \/ Eval \/ StoreAns \/ Report

SpecNested == Init /\ [][NextNested]_vars

\* C12: an evaluation that fails leaves the bindings of the context as they
\* were when the line was entered, also when the tree has an assignment
\* inside a larger expression (x = (y = 1) + z with z unbound), so the session
\* goes on without a partial update
C12_FailureKeepsContext ==
    pc = "eval_error" => ctx = src.before

\* sum(y = 1, z) has failed on z, and y is bound to 1 where it had no binding
C12_Witness ==
    /\ pc = "eval_error"
    /\ line = <<"s", "u", "m", "(", "y", " ", "=", " ", "1", ",", " ", "z", ")">>
    /\ res = UndefinedVariable(Unbound)
    /\ <<"y">> \notin DOMAIN src.before
    /\ <<"y">> \in DOMAIN ctx
    /\ ctx[<<"y">>] = Num(1)

=============================================================================
